---- MODULE Spec2Model ----
(***************************************************************************)
(* make_submission.py: the mask phase and the polygon phase of main, and   *)
(* get_poly_data, the per-image task of the polygon phase.                 *)
(*                                                                         *)
(* Image ids are the numbers 1..NumIds (sorted() is the numeric order).    *)
(* Scores are tenths: 0.5 is 5.  A mask array is a function from its       *)
(* pixels 1..MaskLen to scores; its shape is its domain.                   *)
(***************************************************************************)
EXTENDS Integers, Sequences, FiniteSets, TLC

\* ----------------------------------------------------------------- bounds
NumIds == 2
MaxCls == 1
MaskLen == 1
MaxRuns == 2
MaxRemovals == 1

\* ------------------------------------------------------ program constants
\* arg('--threshold', type=float, default=0.5), in tenths
Threshold == 5
\* multiprocessing.Pool(processes=4)
Processes == 4

Ids == 1..NumIds
Classes == 0..MaxCls
PolyTypes == 1..(MaxCls + 1)
Pixels == 1..MaskLen
\* float16 scores in tenths: below, at and above the default threshold
Scores == {0, 5, 9}
Masks == [Pixels -> Scores]

VARIABLES
    cls,          \* hps.cls, the 0-based class of the restored model
    wkt_data,     \* utils.get_wkt_data(): image id -> (poly_type -> WKT)
    grid_sizes,   \* ids that have size metadata (utils.get_scalers succeeds)
    args,         \* the parsed command line: train_only, only, masks_only
    files,        \* store/<id>.mask: state and contents of each mask file
    pc,           \* where main is
    run,          \* how many times main has been started
    pos,          \* mask phase: index into sorted(to_predict)
    to_output,    \* polygon phase: the ids in the order imap iterates them
    tasks,        \* polygon phase: state of the task of each position
    nxt,          \* polygon phase: position of the next row imap yields
    out,          \* the lines of the output csv
    removals,     \* mask files removed by something other than main
    removed_run   \* whether a mask file was removed during the current run

vars == <<cls, wkt_data, grid_sizes, args, files, pc, run, pos, to_output,
          tasks, nxt, out, removals, removed_run>>

env == <<cls, wkt_data, grid_sizes, args>>

\* ------------------------------------------------------------- WKT, str()
\* A WKT string: its text up to the coordinates, and the coordinates.
EmptyWkt == [text |-> "MULTIPOLYGON EMPTY", coords |-> {}]

\* shapely.wkt.dumps of a multipolygon, given as the set of its cells
dumps(poly) ==
    IF poly = {} THEN EmptyWkt
    ELSE [text |-> "MULTIPOLYGON", coords |-> poly]

\* shapely.wkt.loads
loads(wkt) == wkt.coords

Digit == <<"0", "1", "2", "3", "4", "5", "6", "7", "8", "9">>

\* str(n) of a natural number: its decimal digits, most significant first
RECURSIVE str(_)
str(n) ==
    IF n < 10 THEN <<Digit[n + 1]>>
    ELSE str(n \div 10) \o <<Digit[(n % 10) + 1]>>

\* ------------------------------------------------------------------ files
AbsentFile == [st |-> "absent", data |-> <<>>]
\* opened with 'wb' and not (completely) written
PartialFile == [st |-> "partial", data |-> <<>>]
SavedFile(mask) == [st |-> "complete", data |-> mask]

\* Path.exists()
exists(fs, im_id) == fs[im_id].st # "absent"

\* ------------------------------------------------------------ collaborators
\* dict.get(key): the value in a one-element set, or {} for None
Get(d, key) == IF key \in DOMAIN d THEN {d[key]} ELSE {}

\* the truth value of "if train_polygons:": neither None nor an empty dict
Truthy(opt) == \E d \in opt : DOMAIN d # {}

\* utils.get_scalers(im_id, im_size): the x scale factor of the image, as the
\* number of pixels per annotation unit; NotFound without size metadata
get_scalers(im_id, shape, sizes) ==
    IF im_id \in sizes
    THEN [ok |-> TRUE, x_scaler |-> Cardinality(shape)]
    ELSE [ok |-> FALSE, x_scaler |-> 0]

\* utils.mask_to_polygons(mask): one cell per "on" pixel, in pixel space
mask_to_polygons(mask) == {p \in DOMAIN mask : mask[p]}

\* shapely.affinity.scale(polygons, xfact = 1 / x_scaler, origin = 0): pixel
\* p becomes the annotation coordinate p / x_scaler, kept as <<p, x_scaler>>
scale(polygons, x_scaler) == {<<p, x_scaler>> : p \in polygons}

\* utils.scale_to_mask and utils.mask_for_polygons: the ground truth drawn
\* on the pixels of the mask
mask_for_polygons(shape, train_poly, x_scaler) ==
    [p \in shape |-> <<p, x_scaler>> \in train_poly]

\* utils.mask_tp_fp_fn
mask_tp_fp_fn(mask, true_mask) ==
    [tp |-> Cardinality({p \in DOMAIN mask : mask[p] /\ true_mask[p]}),
     fp |-> Cardinality({p \in DOMAIN mask : mask[p] /\ ~true_mask[p]}),
     fn |-> Cardinality({p \in DOMAIN mask : ~mask[p] /\ true_mask[p]})]

\* np.load(path): the array of a completely written file; it raises on a
\* file that is missing or holds no complete array
np_load(fs, im_id) ==
    IF fs[im_id].st = "complete"
    THEN [ok |-> TRUE, data |-> fs[im_id].data]
    ELSE [ok |-> FALSE, data |-> <<>>]

\* ---------------------------------------------------------- get_poly_data
mask_path_exists_unchecked(fs, im_id) == TRUE

\* mask_path = store.joinpath('{}.mask'.format(im_id)); mask_path.exists()
mask_path_exists(fs, im_id) == exists(fs, im_id)

poly_type_zero_based(c) == c

\* poly_type = cls + 1
poly_type(c) == c + 1

above_or_equal(score) == score >= Threshold

\* one element of "mask > threshold"
above(score) == score > Threshold

\* mask = mask > threshold
threshold_mask(mask) == [p \in DOMAIN mask |-> above(mask[p])]

\* get_polygons(im_id, mask, epsilon, cls)
get_polygons(im_id, mask, sizes) ==
    LET s == get_scalers(im_id, DOMAIN mask, sizes)
    IN  IF s.ok
        THEN [ok |-> TRUE, poly |-> scale(mask_to_polygons(mask), s.x_scaler)]
        ELSE [ok |-> FALSE, poly |-> {}]

\* log_jaccard(im_id, pred_poly, train_poly, mask, threshold): the numbers
\* of the line it logs
log_jaccard(im_id, pred_poly, train_wkt, mask) ==
    LET train_poly == loads(train_wkt)
        true_mask == mask_for_polygons(DOMAIN mask, train_poly,
                                       Cardinality(DOMAIN mask))
        c == mask_tp_fp_fn(mask, true_mask)
    IN  [im_id |-> im_id,
         inter |-> Cardinality(pred_poly \cap train_poly),
         union |-> Cardinality(pred_poly \cup train_poly),
         tp |-> c.tp, fp |-> c.fp, fn |-> c.fn]

\* What one call of get_poly_data did: the row it returned (row, empty when
\* it raised), the exception it raised (exc, "" when it returned), the calls
\* it made in order, the keys it looked up in train_polygons, and the
\* metrics it logged.
Returned(row, calls, keys, metrics) ==
    [row |-> <<row>>, exc |-> "", calls |-> calls, keys |-> keys,
     metrics |-> metrics]

Raised(exc, calls, keys) ==
    [row |-> <<>>, exc |-> exc, calls |-> calls, keys |-> keys,
     metrics |-> <<>>]

\* the else branch: the mask file is absent
absent_row(im_id, c) ==
    Returned(<<im_id, str(poly_type(c)), EmptyWkt>>,
             <<"get_wkt_data", "exists">>, <<>>, <<>>)

train_row_predicted(im_id, c, train_polygons, pred_poly, mask) ==
    Returned(<<im_id, str(poly_type(c)), dumps(pred_poly)>>,
             <<"get_wkt_data", "exists", "load", "get_polygons">>,
             <<>>, <<>>)

\* the "if train_polygons:" branch
train_row(im_id, c, train_polygons, pred_poly, mask) ==
    IF poly_type(c) \notin DOMAIN train_polygons
    THEN Raised("KeyError",
                <<"get_wkt_data", "exists", "load", "get_polygons">>,
                <<poly_type(c)>>)
    ELSE Returned(<<im_id, str(poly_type(c)), train_polygons[poly_type(c)]>>,
                  <<"get_wkt_data", "exists", "load", "get_polygons",
                    "log_jaccard">>,
                  <<poly_type(c), poly_type(c)>>,
                  <<log_jaccard(im_id, pred_poly,
                                train_polygons[poly_type(c)], mask)>>)

\* the branch without ground truth
pred_row(im_id, c, pred_poly) ==
    Returned(<<im_id, str(poly_type(c)), dumps(pred_poly)>>,
             <<"get_wkt_data", "exists", "load", "get_polygons">>,
             <<>>, <<>>)

\* get_poly_data(im_id, store, cls, threshold, epsilon), reading the store
\* fs, the ground truth wkt and the size metadata sizes
get_poly_data(im_id, c, fs, wkt, sizes) ==
    LET train_polygons == Get(wkt, im_id)
        loaded == np_load(fs, im_id)
    IN  IF mask_path_exists(fs, im_id)
        THEN IF ~loaded.ok
             THEN Raised("LoadError", <<"get_wkt_data", "exists", "load">>,
                         <<>>)
             ELSE LET mask == threshold_mask(loaded.data)
                      pred == get_polygons(im_id, mask, sizes)
                  IN  IF ~pred.ok
                      THEN Raised("NotFound",
                                  <<"get_wkt_data", "exists", "load",
                                    "get_polygons">>, <<>>)
                      ELSE IF Truthy(train_polygons)
                           THEN train_row(im_id, c,
                                          CHOOSE d \in train_polygons : TRUE,
                                          pred.poly, mask)
                           ELSE pred_row(im_id, c, pred.poly)
        ELSE absent_row(im_id, c)

\* ------------------------------------------------------------------- main
\* image_ids: the ids of sample_submission.csv, in the order of the file
image_ids == [i \in 1..NumIds |-> NumIds + 1 - i]

Range(seq) == {seq[i] : i \in DOMAIN seq}

\* the orders in which a set can be iterated
Orders(S) ==
    {o \in [1..Cardinality(S) -> S] : \A i, j \in DOMAIN o : i # j => o[i] # o[j]}

\* sorted(S)
sorted(S) == CHOOSE o \in Orders(S) : \A i, j \in DOMAIN o : i < j => o[i] < o[j]

\* train_ids = set(utils.get_wkt_data())
train_ids(wkt) == DOMAIN wkt

\* to_predict = train_ids if args.train_only else set(only or image_ids)
to_predict(a, wkt) ==
    IF a.train_only THEN train_ids(wkt)
    ELSE IF a.only # {} THEN a.only ELSE Range(image_ids)

to_output_all_images(a, wkt) ==
    IF a.train_only THEN Orders(train_ids(wkt)) ELSE {image_ids}

\* to_output = train_ids if args.train_only else (only or image_ids), as the
\* orders in which imap can iterate it: a set is iterated in any one order
to_output_orders(a, wkt) ==
    IF a.train_only THEN Orders(train_ids(wkt))
    ELSE IF a.only # {} THEN Orders(a.only) ELSE {image_ids}

\* model.predict_image_mask(im).astype(np.float16): one fixed mask per image
predict_image_mask(im_id) ==
    [p \in Pixels |-> IF (im_id + p) % 3 = 0 THEN 9
                      ELSE IF (im_id + p) % 3 = 1 THEN 5 ELSE 0]

\* header = next(reader)
Header == <<"header", <<"ImageId", "ClassType", "MultipolygonWKT">> >>

Queued == [st |-> "queued", res |-> <<>>]
Running == [st |-> "running", res |-> <<>>]
Done(result) == [st |-> "done", res |-> <<result>>]
\* a task whose result is never read: its pool was terminated
Terminated == [st |-> "terminated", res |-> <<>>]
Yielded(task) == [st |-> "yielded", res |-> task.res]

\* im_path = store.joinpath('{}.mask'.format(im_id)); im_path.exists()
im_path_exists(fs, im_id) == exists(fs, im_id)

\* the image the mask phase is at
im_id_at(p) == sorted(to_predict(args, wkt_data))[p]

MaskPhaseLen == Cardinality(to_predict(args, wkt_data))

\* if im_path.exists(): log 'Skip'; continue
MaskSkip ==
    /\ pc = "mask"
    /\ pos <= MaskPhaseLen
    /\ im_path_exists(files, im_id_at(pos))
    /\ pos' = pos + 1
    /\ UNCHANGED <<env, files, pc, run, to_output, tasks, nxt, out, removals,
                   removed_run>>

\* utils.load_image, the prediction or the assert on the mask's shape raises:
\* main ends with the exception and the file is not created
MaskFail ==
    /\ pc = "mask"
    /\ pos <= MaskPhaseLen
    /\ ~im_path_exists(files, im_id_at(pos))
    /\ pc' = "crashed"
    /\ UNCHANGED <<env, files, run, pos, to_output, tasks, nxt, out, removals,
                   removed_run>>

\* the mask is predicted and im_path.open('wb') creates the file
MaskOpen ==
    /\ pc = "mask"
    /\ pos <= MaskPhaseLen
    /\ ~im_path_exists(files, im_id_at(pos))
    /\ files' = [files EXCEPT ![im_id_at(pos)] = PartialFile]
    /\ pc' = "save"
    /\ UNCHANGED <<env, run, pos, to_output, tasks, nxt, out, removals,
                   removed_run>>

\* np.save(f, mask) completes and the file is closed; a file that was
\* removed while it was open stays removed
MaskSave ==
    /\ pc = "save"
    /\ files' = [files EXCEPT
                   ![im_id_at(pos)] =
                       IF exists(files, im_id_at(pos))
                       THEN SavedFile(predict_image_mask(im_id_at(pos)))
                       ELSE AbsentFile]
    /\ pc' = "mask"
    /\ pos' = pos + 1
    /\ UNCHANGED <<env, run, to_output, tasks, nxt, out, removals,
                   removed_run>>

\* if args.masks_only: return
MasksOnlyReturn ==
    /\ pc = "mask"
    /\ pos > MaskPhaseLen
    /\ args.masks_only
    /\ pc' = "done"
    /\ UNCHANGED <<env, files, run, pos, to_output, tasks, nxt, out, removals,
                   removed_run>>

\* open(args.output, 'wt'), writer.writerow(header), the pool is created and
\* imap queues one task per element of to_output
PolyStart ==
    /\ pc = "mask"
    /\ pos > MaskPhaseLen
    /\ ~args.masks_only
    /\ pc' = "poly"
    /\ out' = <<Header>>
    /\ to_output' \in to_output_orders(args, wkt_data)
    /\ tasks' = [k \in 1..Len(to_output') |-> Queued]
    /\ nxt' = 1
    /\ UNCHANGED <<env, files, run, pos, removals, removed_run>>

\* a free worker process takes the oldest queued task
Dispatch(k) ==
    /\ pc = "poly"
    /\ tasks[k].st = "queued"
    /\ \A j \in 1..(k - 1) : tasks[j].st # "queued"
    /\ Cardinality({j \in DOMAIN tasks : tasks[j].st = "running"}) < Processes
    /\ tasks' = [tasks EXCEPT ![k] = Running]
    /\ UNCHANGED <<env, files, pc, run, pos, to_output, nxt, out, removals,
                   removed_run>>

\* a worker runs get_poly_data on its id and sends back the row or the
\* exception
Complete(k) ==
    /\ pc = "poly"
    /\ tasks[k].st = "running"
    /\ tasks' = [tasks EXCEPT
                   ![k] = Done(get_poly_data(to_output[k], cls, files,
                                             wkt_data, grid_sizes))]
    /\ UNCHANGED <<env, files, pc, run, pos, to_output, nxt, out, removals,
                   removed_run>>

imap_unordered_ready(ts) == {k \in DOMAIN ts : ts[k].st = "done"}

\* pool.imap: the result the iterator can yield next is the one of the
\* first position not yet yielded, once it has arrived
imap_ready(ts) ==
    {k \in DOMAIN ts : ts[k].st = "done"
                       /\ \A j \in 1..(k - 1) : ts[j].st = "yielded"}

\* for row in pool.imap(...): writer.writerow(row)
WriteRow(k) ==
    /\ pc = "poly"
    /\ k \in imap_ready(tasks)
    /\ tasks[k].res[1].row # <<>>
    /\ out' = Append(out, <<"row", tasks[k].res[1].row[1]>>)
    /\ tasks' = [tasks EXCEPT ![k] = Yielded(tasks[k])]
    /\ nxt' = nxt + 1
    /\ UNCHANGED <<env, files, pc, run, pos, to_output, removals, removed_run>>

\* the iterator re-raises the exception of the task in main: the with blocks
\* terminate the pool and close the file, and main ends with the exception
Reraise(k) ==
    /\ pc = "poly"
    /\ k \in imap_ready(tasks)
    /\ tasks[k].res[1].row = <<>>
    /\ pc' = "crashed"
    /\ tasks' = [j \in DOMAIN tasks |->
                    IF j = k \/ tasks[j].st = "yielded" THEN tasks[j]
                    ELSE Terminated]
    /\ UNCHANGED <<env, files, run, pos, to_output, nxt, out, removals,
                   removed_run>>

\* the iterator is exhausted
PolyDone ==
    /\ pc = "poly"
    /\ \A k \in DOMAIN tasks : tasks[k].st = "yielded"
    /\ pc' = "done"
    /\ UNCHANGED <<env, files, run, pos, to_output, tasks, nxt, out, removals,
                   removed_run>>

\* the process is terminated from outside: its workers and everything it
\* held in memory are gone, the files stay as they are
Kill ==
    /\ pc \in {"mask", "save", "poly"}
    /\ pc' = "killed"
    /\ pos' = 1
    /\ to_output' = <<>>
    /\ tasks' = <<>>
    /\ nxt' = 0
    /\ UNCHANGED <<env, files, run, out, removals, removed_run>>

\* main is started again with the same command line
Restart ==
    /\ pc \in {"done", "crashed", "killed"}
    /\ run < MaxRuns
    /\ run' = run + 1
    /\ pc' = "mask"
    /\ pos' = 1
    /\ to_output' = <<>>
    /\ tasks' = <<>>
    /\ nxt' = 0
    /\ removed_run' = FALSE
    /\ UNCHANGED <<env, files, out, removals>>

\* something other than main removes a mask file
ExternalRemove(im_id) ==
    /\ removals < MaxRemovals
    /\ exists(files, im_id)
    /\ files' = [files EXCEPT ![im_id] = AbsentFile]
    /\ removals' = removals + 1
    /\ removed_run' = TRUE
    /\ UNCHANGED <<env, pc, run, pos, to_output, tasks, nxt, out>>

\* ground-truth strings: an empty and a non-empty multipolygon
GtWkts == {EmptyWkt, dumps({<<1, MaskLen>>})}

GtDicts == UNION {[S -> GtWkts] : S \in SUBSET PolyTypes}

\* main's runs: an image is annotated for the first class or not at all
MainDicts == {[t \in {1} |-> dumps({<<1, MaskLen>>})]}

\* main's runs: every image has size metadata, or all but the first
MainSizes == {Ids, Ids \ {1}}

\* the command lines: --only is read only without --train-only
ArgSets ==
    {a \in [train_only : BOOLEAN, only : SUBSET Ids, masks_only : BOOLEAN] :
        a.train_only => a.only = {}}

Init ==
    /\ cls = 0
    /\ wkt_data \in UNION {[D -> MainDicts] : D \in SUBSET Ids}
    /\ grid_sizes \in MainSizes
    /\ args \in ArgSets
    /\ files = [i \in Ids |-> AbsentFile]
    /\ pc = "mask"
    /\ run = 1
    /\ pos = 1
    /\ to_output = <<>>
    /\ tasks = <<>>
    /\ nxt = 0
    /\ out = <<>>
    /\ removals = 0
    /\ removed_run = FALSE

Next ==
    \/ MaskSkip
    \/ MaskFail
    \/ MaskOpen
    \/ MaskSave
    \/ MasksOnlyReturn
    \/ PolyStart
    \/ \E k \in DOMAIN tasks : Dispatch(k)
    \/ \E k \in DOMAIN tasks : Complete(k)
    \/ \E k \in DOMAIN tasks : WriteRow(k)
    \/ \E k \in DOMAIN tasks : Reraise(k)
    \/ PolyDone
    \/ Kill
    \/ Restart
    \/ \E im_id \in Ids : ExternalRemove(im_id)

Spec == Init /\ [][Next]_vars

\* get_poly_data alone: one call on one image, for every class, ground truth,
\* size metadata and state of the mask file
InitPoly ==
    \E im_id \in Ids :
        /\ cls \in Classes
        /\ wkt_data \in UNION {[D -> GtDicts] : D \in SUBSET {im_id}}
        /\ grid_sizes \in SUBSET {im_id}
        /\ args = [train_only |-> FALSE, only |-> {im_id}, masks_only |-> FALSE]
        /\ files \in {[i \in Ids |-> IF i = im_id THEN f ELSE AbsentFile] :
                        f \in {AbsentFile, PartialFile}
                              \cup {SavedFile(m) : m \in Masks}}
        /\ pc = "poly"
        /\ run = 1
        /\ pos = 2
        /\ to_output = <<im_id>>
        /\ tasks = <<Running>>
        /\ nxt = 1
        /\ out = <<Header>>
        /\ removals = 0
        /\ removed_run = FALSE

NextPoly == \E k \in DOMAIN tasks : Complete(k)

SpecPoly == InitPoly /\ [][NextPoly]_vars

\* ----------------------------------------------------------------- claims
\* the result of the task at position k of to_output, once it has one
HasResult(k) == tasks[k].st \in {"done", "yielded"}
ResultOf(k) == tasks[k].res[1]

\* a ground-truth polygon exists for the pair (im_id, cls)
HasTruth(im_id) ==
    im_id \in DOMAIN wkt_data /\ (cls + 1) \in DOMAIN wkt_data[im_id]

\* the stored mask of im_id is complete and has no score above the threshold
NoScoreAbove(im_id) ==
    /\ files[im_id].st = "complete"
    /\ \A p \in DOMAIN files[im_id].data : files[im_id].data[p] <= Threshold

\* C1: when the mask file of the id is absent, get_poly_data returns exactly
\* the row (id, str(cls + 1), "MULTIPOLYGON EMPTY"); it raises nothing, loads
\* no mask, and calls neither get_polygons nor log_jaccard.
C1_AbsentMaskGivesEmptyRow ==
    \A k \in DOMAIN tasks :
        (HasResult(k) /\ ~exists(files, to_output[k])) =>
            /\ ResultOf(k).row = <<<<to_output[k], str(cls + 1), EmptyWkt>>>>
            /\ ResultOf(k).exc = ""
            /\ Range(ResultOf(k).calls)
                   \cap {"load", "get_polygons", "log_jaccard"} = {}
            /\ ResultOf(k).metrics = <<>>

C1_Witness ==
    \E k \in DOMAIN tasks :
        /\ HasResult(k)
        /\ ~exists(files, to_output[k])
        /\ to_output[k] \in DOMAIN wkt_data
        /\ ResultOf(k).row # <<>>

\* C2: when the mask file exists and a ground-truth polygon exists for the
\* (image, class) pair, every row get_poly_data returns carries the
\* ground-truth WKT of that class, not the prediction, and the Jaccard
\* metrics of the image were logged before it returned; with a complete mask
\* and size metadata it does return a row.
C2_TruthRowAfterMetrics ==
    \A k \in DOMAIN tasks :
        (HasResult(k) /\ exists(files, to_output[k]) /\ HasTruth(to_output[k])) =>
            /\ ResultOf(k).row # <<>> =>
                  /\ ResultOf(k).row[1][3] = wkt_data[to_output[k]][cls + 1]
                  /\ ResultOf(k).calls[Len(ResultOf(k).calls)] = "log_jaccard"
                  /\ Len(ResultOf(k).metrics) = 1
                  /\ ResultOf(k).metrics[1].im_id = to_output[k]
            /\ (files[to_output[k]].st = "complete"
                /\ to_output[k] \in grid_sizes) => ResultOf(k).row # <<>>

\* the ground truth is empty and the prediction is not
C2_Witness ==
    \E k \in DOMAIN tasks :
        /\ HasResult(k)
        /\ HasTruth(to_output[k])
        /\ ResultOf(k).row # <<>>
        /\ ResultOf(k).row[1][3] = EmptyWkt
        /\ files[to_output[k]].st = "complete"
        /\ \E p \in Pixels : files[to_output[k]].data[p] > Threshold

\* C3: when the mask file exists (completely written, with size metadata)
\* and no ground-truth polygon exists for the (image, class) pair, whether
\* the image has no entry or entries for other classes only, get_poly_data
\* returns the row with the predicted polygon's WKT and does not fail.
C3_NoTruthGivesPrediction ==
    \A k \in DOMAIN tasks :
        (/\ HasResult(k)
         /\ files[to_output[k]].st = "complete"
         /\ to_output[k] \in grid_sizes
         /\ ~HasTruth(to_output[k])) =>
            /\ ResultOf(k).exc = ""
            /\ ResultOf(k).row =
                  <<<<to_output[k], str(cls + 1),
                      dumps(scale(mask_to_polygons(
                                      [p \in Pixels |->
                                          files[to_output[k]].data[p] > Threshold]),
                                  MaskLen))>>>>

\* C6: when the size metadata of the id is missing while its mask file
\* exists (completely written), get_poly_data yields the empty-polygon row
\* (id, str(cls + 1), "MULTIPOLYGON EMPTY") instead of raising.
C6_MissingSizeGivesEmptyRow ==
    \A k \in DOMAIN tasks :
        (/\ HasResult(k)
         /\ files[to_output[k]].st = "complete"
         /\ to_output[k] \notin grid_sizes) =>
            /\ ResultOf(k).exc = ""
            /\ ResultOf(k).row = <<<<to_output[k], str(cls + 1), EmptyWkt>>>>

\* C7, as claimed: every row returned for an id whose stored mask has no
\* score above the threshold carries "MULTIPOLYGON EMPTY".
C7_Original ==
    \A k \in DOMAIN tasks :
        (HasResult(k) /\ NoScoreAbove(to_output[k]) /\ ResultOf(k).row # <<>>) =>
            ResultOf(k).row[1][3] = EmptyWkt

\* C7, amended: every row returned for an id whose stored mask has no score
\* above the threshold carries "MULTIPOLYGON EMPTY" when the image has no
\* ground truth; when it has, the row carries the ground-truth WKT of the
\* class, and the metrics logged are those of an empty prediction.
C7_EmptyUnlessTruth ==
    \A k \in DOMAIN tasks :
        (HasResult(k) /\ NoScoreAbove(to_output[k]) /\ ResultOf(k).row # <<>>) =>
            IF Truthy(Get(wkt_data, to_output[k]))
            THEN /\ ResultOf(k).row[1][3] = wkt_data[to_output[k]][cls + 1]
                 /\ ResultOf(k).metrics[1].inter = 0
                 /\ ResultOf(k).metrics[1].tp = 0
                 /\ ResultOf(k).metrics[1].fp = 0
            ELSE ResultOf(k).row[1][3] = EmptyWkt

\* a score equal to the threshold, no ground truth
C7_Witness ==
    \E k \in DOMAIN tasks :
        /\ HasResult(k)
        /\ NoScoreAbove(to_output[k])
        /\ \E p \in Pixels : files[to_output[k]].data[p] = Threshold
        /\ to_output[k] \notin DOMAIN wkt_data
        /\ ResultOf(k).row # <<>>

\* C8: in every branch of get_poly_data the second field of the returned row
\* is str(cls + 1), and every key looked up in the ground truth of the image
\* is that same 1-based cls + 1.
C8_OneBasedClass ==
    \A k \in DOMAIN tasks :
        HasResult(k) =>
            /\ ResultOf(k).row # <<>> => ResultOf(k).row[1][2] = str(cls + 1)
            /\ \A i \in DOMAIN ResultOf(k).keys : ResultOf(k).keys[i] = cls + 1

C8_Witness ==
    \E k \in DOMAIN tasks :
        /\ HasResult(k)
        /\ cls > 0
        /\ ResultOf(k).row # <<>>
        /\ ResultOf(k).keys # <<>>

\* ------------------------------------------------------- claims about main
\* C4: whenever main is not in the middle of writing a mask, a mask file
\* that exists holds the completely computed mask of its image, also after
\* a run was terminated while writing and main was started again.
C4_ExistingMaskIsComplete ==
    pc \in {"mask", "poly"} =>
        \A im_id \in Ids :
            exists(files, im_id) =>
                files[im_id] = SavedFile(predict_image_mask(im_id))

\* C5: a failure of one id's task does not end main's loop: a run that
\* reached the polygon phase and was not terminated ends normally, with the
\* row of every id of to_output in the output file.
C5_FailureIsolated ==
    (nxt >= 1 /\ pc \in {"done", "crashed"}) =>
        /\ pc = "done"
        /\ \A k \in DOMAIN to_output :
              \E i \in DOMAIN out :
                  out[i][1] = "row" /\ out[i][2][1] = to_output[k]

\* C9: in the polygon phase the header is the first line of the output and
\* the k-th row written is the row of the k-th id of to_output, whatever the
\* order in which the workers finish; a run that ends normally has written
\* exactly one row per id.
C9_RowsInInputOrder ==
    nxt >= 1 =>
        /\ Len(out) = nxt
        /\ out[1] = Header
        /\ \A k \in 1..(nxt - 1) :
              /\ out[k + 1][1] = "row"
              /\ out[k + 1][2][1] = to_output[k]
              /\ out[k + 1][2] = ResultOf(k).row[1]
        /\ pc = "done" => nxt = Len(to_output) + 1

\* the second task has finished and the first has not: its row waits
C9_Witness ==
    /\ pc = "poly"
    /\ Len(to_output) >= 2
    /\ tasks[1].st = "running"
    /\ tasks[2].st = "done"
    /\ ResultOf(2).row # <<>>
    /\ Len(out) = 1

\* C10: in a run without --masks-only whose mask phase finished and during
\* which no mask file was removed from outside, to_output holds the ids of
\* to_predict, each of them has a mask file from the start of the polygon
\* phase on, and no task of the run takes the absent-mask branch.
C10_EveryOutputIdHasMask ==
    (nxt >= 1 /\ ~removed_run) =>
        /\ Range(to_output) = to_predict(args, wkt_data)
        /\ \A k \in DOMAIN to_output :
              /\ exists(files, to_output[k])
              /\ HasResult(k) => "load" \in Range(ResultOf(k).calls)

C10_Witness ==
    /\ pc = "done"
    /\ nxt >= 1
    /\ ~removed_run
    /\ ~args.train_only
    /\ Cardinality(args.only) = 1
    /\ Len(to_output) = 1

====
